---------------------------- MODULE Spec2Model ----------------------------
(***************************************************************************)
(* A model of UserBehaviorTracker (src/user_behavior_tracker.py): the      *)
(* in-memory interaction store, the user profiles, the off-track detector, *)
(* style inference, prompt personalization, feedback learning, the         *)
(* reliability report and the best-effort mirroring to Supabase.           *)
(*                                                                         *)
(* Representation.  A text is a sequence of one-character strings, so that *)
(* str.lower() and the substring test `x in y` are computed, not assumed.  *)
(* A prompt is a sequence of text chunks and + is concatenation.  An       *)
(* Optional value is <<>> (None) or <<x>>.  Time is counted in whole days. *)
(* A quotient a / b is kept as the pair [num |-> a, den |-> b].            *)
(***************************************************************************)
EXTENDS Integers, Sequences, FiniteSets, TLC

----------------------------------------------------------------------------
(* Texts *)

LowerMap ==
    "A" :> "a" @@ "B" :> "b" @@ "C" :> "c" @@ "D" :> "d" @@ "E" :> "e" @@ "F" :> "f" @@
    "G" :> "g" @@ "H" :> "h" @@ "I" :> "i" @@ "J" :> "j" @@ "K" :> "k" @@ "L" :> "l" @@
    "M" :> "m" @@ "N" :> "n" @@ "O" :> "o" @@ "P" :> "p" @@ "Q" :> "q" @@ "R" :> "r" @@
    "S" :> "s" @@ "T" :> "t" @@ "U" :> "u" @@ "V" :> "v" @@ "W" :> "w" @@ "X" :> "x" @@
    "Y" :> "y" @@ "Z" :> "z"

\* The phrases of _detect_off_track, in the order the loop tries them.
off_track_indicators ==
    << <<"I", " ", "d", "o", "n", "'", "t", " ", "u", "n", "d", "e", "r", "s", "t", "a", "n", "d">>,
       <<"T", "h", "a", "t", "'", "s", " ", "n", "o", "t", " ", "w", "h", "a", "t", " ", "I", " ", "a", "s", "k", "e", "d">>,
       <<"W", "r", "o", "n", "g">>,
       <<"N", "o", ",", " ", "t", "h", "a", "t", "'", "s", " ", "n", "o", "t", " ", "r", "i", "g", "h", "t">>,
       <<"Y", "o", "u", "'", "r", "e", " ", "n", "o", "t", " ", "h", "e", "l", "p", "i", "n", "g">>,
       <<"T", "h", "i", "s", " ", "i", "s", " ", "u", "s", "e", "l", "e", "s", "s">> >>

\* The concise indicators of analyze_response_style_preference.
concise_indicators ==
    << <<"s", "h", "o", "r", "t">>,
       <<"b", "r", "i", "e", "f">>,
       <<"q", "u", "i", "c", "k">>,
       <<"s", "u", "m", "m", "a", "r", "y">> >>

\* The detailed indicators of analyze_response_style_preference.
detailed_indicators ==
    << <<"m", "o", "r", "e">>,
       <<"d", "e", "t", "a", "i", "l", "s">>,
       <<"e", "x", "p", "l", "a", "i", "n">>,
       <<"e", "l", "a", "b", "o", "r", "a", "t", "e">> >>

\* "too long"
KW_TOO_LONG ==
    <<"t", "o", "o", " ", "l", "o", "n", "g">>

\* "verbose"
KW_VERBOSE ==
    <<"v", "e", "r", "b", "o", "s", "e">>

\* "too short"
KW_TOO_SHORT ==
    <<"t", "o", "o", " ", "s", "h", "o", "r", "t">>

\* "brief"
KW_BRIEF ==
    <<"b", "r", "i", "e", "f">>

\* "not helpful"
KW_NOT_HELPFUL ==
    <<"n", "o", "t", " ", "h", "e", "l", "p", "f", "u", "l">>

\* "useless"
KW_USELESS ==
    <<"u", "s", "e", "l", "e", "s", "s">>

\* "wrong"
KW_WRONG ==
    <<"w", "r", "o", "n", "g">>

\* "incorrect"
KW_INCORRECT ==
    <<"i", "n", "c", "o", "r", "r", "e", "c", "t">>

\* "rude"
KW_RUDE ==
    <<"r", "u", "d", "e">>

\* "inappropriate"
KW_INAPPROPRIATE ==
    <<"i", "n", "a", "p", "p", "r", "o", "p", "r", "i", "a", "t", "e">>

\* str.lower() on one character.
LowerChar(c) == IF c \in DOMAIN LowerMap THEN LowerMap[c] ELSE c

\* str.lower()
lower(s) == [i \in 1..Len(s) |-> LowerChar(s[i])]

\* needle in hay (substring containment)
Contains(needle, hay) ==
    \E i \in 0..(Len(hay) - Len(needle)) :
        SubSeq(hay, i + 1, i + Len(needle)) = needle

\* any(ind in text for ind in indicators)
ContainsAny(indicators, text) ==
    \E k \in 1..Len(indicators) : Contains(indicators[k], text)

----------------------------------------------------------------------------
(* Values *)

None == <<>>
Some(x) == <<x>>

\* dict[k] = v
DictSet(d, k, v) == [x \in (DOMAIN d) \cup {k} |-> IF x = k THEN v ELSE d[x]]

\* dict.get(k, default)
DictGet(d, k, default) == IF k \in DOMAIN d THEN d[k] ELSE default

RECURSIVE SumSeq(_)
\* sum(s)
SumSeq(s) == IF s = <<>> THEN 0 ELSE Head(s) + SumSeq(Tail(s))

\* a / b, kept exact
Quotient(a, b) == [num |-> a, den |-> b]

\* The quotient q compared with the integer n.
QuotientLess(q, n) == q.num < n * q.den

\* s[:n], the oldest entries instead of the newest.
LastSlice_Head(s, n) == SubSeq(s, 1, IF Len(s) > n THEN n ELSE Len(s))

\* The whole list, whatever n.
LastSlice_All(s, n) == s

\* s[-n:]
LastSlice(s, n) == SubSeq(s, IF Len(s) > n THEN Len(s) - n + 1 ELSE 1, Len(s))

\* datetime.isoformat() and datetime.fromisoformat(): a timestamp is kept as
\* the string form of the clock reading and parsed back when it is compared.
isoformat(t) == [iso |-> t]
fromisoformat(s) == s.iso

\* The thresholds of the heuristics.
LowScoreThreshold == 3
MinInteractions == 3
WindowDays == 7
OffTrackThreshold == 2
RecentScores == 5
LowSatisfaction == 4

----------------------------------------------------------------------------
(* The data classes and the tracker object *)

\* UserInteraction(...): metadata is stored as `metadata or {}`.
UserInteraction(a, clock) ==
    [user_id            |-> a.user_id,
     interaction_type   |-> a.interaction_type,
     agent_name         |-> a.agent_name,
     input_text         |-> a.input_text,
     output_text        |-> a.output_text,
     timestamp          |-> isoformat(clock),
     satisfaction_score |-> a.satisfaction_score,
     feedback           |-> a.feedback,
     metadata           |-> IF a.metadata = None THEN <<>> ELSE a.metadata[1]]

\* UserProfile(user_id=user_id), after __post_init__
UserProfile(user_id) ==
    [user_id                  |-> user_id,
     interaction_count        |-> 0,
     preferred_response_style |-> "balanced",
     common_questions         |-> <<>>,
     satisfaction_history     |-> <<>>,
     last_interaction         |-> None,
     preferences              |-> <<>>]

\* UserBehaviorTracker.__init__
NewTracker ==
    [interactions                |-> <<>>,
     user_profiles               |-> <<>>,
     off_track_patterns          |-> <<>>,
     supabase_tables_checked     |-> FALSE,
     has_user_interactions_table |-> FALSE,
     has_user_learning_table     |-> FALSE]

\* What a call did to the storage client: capability probes run, 'tables not
\* found' notices printed, tables it tried to insert into, warnings printed.
NoIO == [probes |-> 0, notices |-> 0, inserts |-> {}, warnings |-> 0]

----------------------------------------------------------------------------
(* _detect_off_track *)

\* indicator.lower() in input_lower or indicator.lower() in feedback_lower
IndicatorMatches(indicator, interaction) ==
    LET input_lower    == lower(interaction.input_text)
        feedback_lower == lower(IF interaction.feedback = None
                                THEN <<>> ELSE interaction.feedback[1])
    IN  \/ Contains(lower(indicator), input_lower)
        \/ Contains(lower(indicator), feedback_lower)

\* self.off_track_patterns[user_id] += 1 on a defaultdict(int)
BumpOffTrack(self, user_id) ==
    [self EXCEPT !.off_track_patterns =
        DictSet(@, user_id, DictGet(@, user_id, 0) + 1)]

RECURSIVE detect_loop_NoReturn(_, _, _, _)
\* The loop without its `return True`: every matching phrase counts.
detect_loop_NoReturn(self, user_id, interaction, k) ==
    IF k > Len(off_track_indicators)
    THEN [self |-> self, returned |-> FALSE]
    ELSE IF IndicatorMatches(off_track_indicators[k], interaction)
         THEN detect_loop_NoReturn(BumpOffTrack(self, user_id), user_id, interaction, k + 1)
         ELSE detect_loop_NoReturn(self, user_id, interaction, k + 1)

RECURSIVE detect_loop(_, _, _, _)
\* for indicator in off_track_indicators: the first match counts and returns.
detect_loop(self, user_id, interaction, k) ==
    IF k > Len(off_track_indicators)
    THEN [self |-> self, returned |-> FALSE]
    ELSE IF IndicatorMatches(off_track_indicators[k], interaction)
         THEN [self |-> BumpOffTrack(self, user_id), returned |-> TRUE]
         ELSE detect_loop(self, user_id, interaction, k + 1)

\* An interaction that does not trigger the detector clears the counter.
detect_off_track_Resets(self, user_id, interaction) ==
    LET L == detect_loop(self, user_id, interaction, 1)
    IN  IF L.returned
        THEN [self |-> L.self, out |-> TRUE]
        ELSE IF /\ interaction.satisfaction_score # None
                /\ interaction.satisfaction_score[1] < LowScoreThreshold
             THEN [self |-> BumpOffTrack(L.self, user_id), out |-> TRUE]
             ELSE [self |-> [L.self EXCEPT !.off_track_patterns =
                                DictSet(@, user_id, 0)],
                   out  |-> FALSE]

detect_off_track(self, user_id, interaction) ==
    LET L == detect_loop(self, user_id, interaction, 1)
    IN  IF L.returned
        THEN [self |-> L.self, out |-> TRUE]
        ELSE IF /\ interaction.satisfaction_score # None
                /\ interaction.satisfaction_score[1] < LowScoreThreshold
             THEN [self |-> BumpOffTrack(L.self, user_id), out |-> TRUE]
             ELSE [self |-> L.self, out |-> FALSE]

----------------------------------------------------------------------------
(* Storage: supabase is the module-level client, or None.  A probe ends "ok", *)
(* "missing" (an exception naming 'Could not find the table' or PGRST205) or  *)
(* "error" (any other exception); an insert ends "ok" or "raise".             *)

\* The flag a probe's try/except leaves behind.
ProbeFlag(outcome) == outcome # "missing"

\* The probe without `self._supabase_tables_checked = True` after it.
check_supabase_tables_NoCache(self, sb, env) ==
    IF ~sb
    THEN [self |-> self, io |-> NoIO]
    ELSE LET ui == ProbeFlag(env.probe_interactions)
             ul == ProbeFlag(env.probe_learning)
         IN  [self |-> [self EXCEPT !.has_user_interactions_table = ui,
                                    !.has_user_learning_table = ul],
              io   |-> [NoIO EXCEPT !.probes = 1,
                                    !.notices = IF ~ui \/ ~ul THEN 1 ELSE 0]]

check_supabase_tables(self, sb, env) ==
    IF ~sb
    THEN [self |-> [self EXCEPT !.supabase_tables_checked = TRUE], io |-> NoIO]
    ELSE LET ui == ProbeFlag(env.probe_interactions)
             ul == ProbeFlag(env.probe_learning)
         IN  [self |-> [self EXCEPT !.has_user_interactions_table = ui,
                                    !.has_user_learning_table = ul,
                                    !.supabase_tables_checked = TRUE],
              io   |-> [NoIO EXCEPT !.probes = 1,
                                    !.notices = IF ~ui \/ ~ul THEN 1 ELSE 0]]

\* if supabase: check the tables on first use, then insert inside try/except.
mirror(self, sb, env, table) ==
    IF ~sb
    THEN [self |-> self, io |-> NoIO, raised |-> FALSE]
    ELSE LET C == IF ~self.supabase_tables_checked
                  THEN check_supabase_tables(self, sb, env)
                  ELSE [self |-> self, io |-> NoIO]
             has == IF table = "user_interactions"
                    THEN C.self.has_user_interactions_table
                    ELSE C.self.has_user_learning_table
         IN  [self   |-> C.self,
              io     |-> [C.io EXCEPT
                            !.inserts  = IF has THEN {table} ELSE {},
                            !.warnings = IF has /\ env.insert = "raise" THEN 1 ELSE 0],
              raised |-> FALSE]

----------------------------------------------------------------------------
(* get_user_profile and record_interaction *)

\* The profile is made anew on every call, known user or not.
get_user_profile_AlwaysNew(self, user_id) ==
    [self EXCEPT !.user_profiles = DictSet(@, user_id, UserProfile(user_id))]

get_user_profile(self, user_id) ==
    IF user_id \notin DOMAIN self.user_profiles
    THEN [self EXCEPT !.user_profiles = DictSet(@, user_id, UserProfile(user_id))]
    ELSE self

\* The count is set to 1 where the code adds 1.
touch_profile_SetsOne(self, user_id, interaction) ==
    [self EXCEPT
        !.user_profiles[user_id].interaction_count = 1,
        !.user_profiles[user_id].last_interaction = Some(interaction.timestamp)]

\* profile.interaction_count += 1; profile.last_interaction = interaction.timestamp
touch_profile(self, user_id, interaction) ==
    [self EXCEPT
        !.user_profiles[user_id].interaction_count = @ + 1,
        !.user_profiles[user_id].last_interaction = Some(interaction.timestamp)]

\* The record is put at the front of the list.
store_interaction_Prepend(self, interaction) ==
    [self EXCEPT !.interactions = <<interaction>> \o @]

\* self.interactions.append(interaction)
store_interaction(self, interaction) ==
    [self EXCEPT !.interactions = Append(@, interaction)]

\* Lines 110-136: the in-memory part of record_interaction.
record_in_memory(self, clock, a) ==
    LET interaction == UserInteraction(a, clock)
        s1 == store_interaction(self, interaction)
        s2 == IF a.user_id \notin DOMAIN s1.user_profiles
              THEN [s1 EXCEPT !.user_profiles =
                        DictSet(@, a.user_id, UserProfile(a.user_id))]
              ELSE s1
        s3 == touch_profile(s2, a.user_id, interaction)
        s4 == IF a.satisfaction_score # None
              THEN [s3 EXCEPT !.user_profiles[a.user_id].satisfaction_history =
                        Append(@, a.satisfaction_score[1])]
              ELSE s3
    IN  detect_off_track(s4, a.user_id, interaction).self

\* The insert is made first and outside any try/except: a failing insert
\* leaves the call before the record is kept.
record_interaction_SaveFirst(self, sb, clock, a, env) ==
    LET M == mirror(self, sb, env, "user_interactions")
    IN  IF M.io.warnings > 0
        THEN [self |-> M.self, io |-> M.io, raised |-> TRUE]
        ELSE [self |-> record_in_memory(M.self, clock, a), io |-> M.io, raised |-> FALSE]

record_interaction(self, sb, clock, a, env) ==
    mirror(record_in_memory(self, clock, a), sb, env, "user_interactions")

----------------------------------------------------------------------------
(* analyze_response_style_preference *)

\* The window closed at exactly seven days: <= where the code has <.
in_window_Inclusive(age) == age <= WindowDays

\* (datetime.now() - datetime.fromisoformat(i.timestamp)) < timedelta(days=7)
in_window(age) == age < WindowDays

\* The floor compared one too low.
insufficient_data_OffByOne(profile) == profile.interaction_count < MinInteractions - 1

\* if profile.interaction_count < 3
insufficient_data(profile) == profile.interaction_count < MinInteractions

\* Lines 235-257: the style read from the profile and the recent records.
inferred_style(self, user_id, clock) ==
    LET profile == self.user_profiles[user_id]
        recent_interactions ==
            SelectSeq(self.interactions,
                      LAMBDA i : /\ i.user_id = user_id
                                 /\ in_window(clock - fromisoformat(i.timestamp)))
        concise_count ==
            Len(SelectSeq(recent_interactions,
                          LAMBDA i : ContainsAny(concise_indicators, lower(i.input_text))))
        detailed_count ==
            Len(SelectSeq(recent_interactions,
                          LAMBDA i : ContainsAny(detailed_indicators, lower(i.input_text))))
    IN  IF insufficient_data(profile) THEN "balanced"
        ELSE IF concise_count > detailed_count THEN "concise"
        ELSE IF detailed_count > concise_count THEN "detailed"
        ELSE "balanced"

\* The analysis is itself counted as an interaction of the user.
analyze_response_style_preference_Counts(self, user_id, clock) ==
    LET s1 == get_user_profile(self, user_id)
    IN  [self |-> [s1 EXCEPT !.user_profiles[user_id].interaction_count = @ + 1],
         out  |-> inferred_style(s1, user_id, clock)]

analyze_response_style_preference(self, user_id, clock) ==
    LET s1 == get_user_profile(self, user_id)
    IN  [self |-> s1, out |-> inferred_style(s1, user_id, clock)]

----------------------------------------------------------------------------
(* get_personalized_prompt_adjustments *)

ADJ_CONCISE  == "Be concise and to the point. Avoid unnecessary details."
ADJ_DETAILED == "Provide detailed explanations and context."
ADJ_OFF_TRACK ==
    "The user seems confused or off-track. Be extra clear, ask clarifying questions if needed, and ensure you're addressing their actual question."
ADJ_LOW_SATISFACTION ==
    "Previous interactions had low satisfaction. Be more helpful, accurate, and empathetic."
NOTES_HEADER == "\n\nPERSONALIZATION NOTES:\n"

RECURSIVE JoinLines(_)
\* "\n".join(f"- {adj}" for adj in adjustments)
JoinLines(adjustments) ==
    IF adjustments = <<>> THEN <<>>
    ELSE IF Len(adjustments) = 1 THEN <<"- ", adjustments[1]>>
    ELSE <<"- ", adjustments[1], "\n">> \o JoinLines(Tail(adjustments))

\* The defaultdict is indexed: a missing key is inserted with the value 0.
off_track_count_Indexing(self, user_id) ==
    [self |-> [self EXCEPT !.off_track_patterns =
                   DictSet(@, user_id, DictGet(@, user_id, 0))],
     out  |-> DictGet(self.off_track_patterns, user_id, 0)]

\* self.off_track_patterns.get(user_id, 0): reads, never inserts.
off_track_count(self, user_id) ==
    [self |-> self, out |-> DictGet(self.off_track_patterns, user_id, 0)]

\* The threshold compared with >= where the code has >.
is_off_track_AtThreshold(count) == count >= OffTrackThreshold

\* self.off_track_patterns.get(user_id, 0) > 2
is_off_track(count) == count > OffTrackThreshold

get_personalized_prompt_adjustments(self, user_id, base_prompt, clock) ==
    LET s1             == get_user_profile(self, user_id)
        A              == analyze_response_style_preference(s1, user_id, clock)
        response_style == A.out
        O              == off_track_count(A.self, user_id)
        off_track      == is_off_track(O.out)
        profile        == O.self.user_profiles[user_id]
        recent         == LastSlice(profile.satisfaction_history, RecentScores)
        adj_style ==
            IF response_style = "concise" THEN <<ADJ_CONCISE>>
            ELSE IF response_style = "detailed" THEN <<ADJ_DETAILED>>
            ELSE <<>>
        adj_off_track == IF off_track THEN <<ADJ_OFF_TRACK>> ELSE <<>>
        adj_low ==
            IF /\ profile.satisfaction_history # <<>>
               /\ QuotientLess(Quotient(SumSeq(recent), Len(recent)), LowSatisfaction)
            THEN <<ADJ_LOW_SATISFACTION>> ELSE <<>>
        adjustments == adj_style \o adj_off_track \o adj_low
    IN  [self        |-> O.self,
         adjustments |-> adjustments,
         out         |-> IF adjustments # <<>>
                         THEN base_prompt \o (<<NOTES_HEADER>> \o JoinLines(adjustments))
                         ELSE base_prompt]

----------------------------------------------------------------------------
(* learn_from_feedback *)

improvement_signals(feedback) ==
    LET feedback_lower == lower(feedback)
    IN  [too_long    |-> Contains(KW_TOO_LONG, feedback_lower) \/ Contains(KW_VERBOSE, feedback_lower),
         too_short   |-> Contains(KW_TOO_SHORT, feedback_lower) \/ Contains(KW_BRIEF, feedback_lower),
         not_helpful |-> Contains(KW_NOT_HELPFUL, feedback_lower) \/ Contains(KW_USELESS, feedback_lower),
         inaccurate  |-> Contains(KW_WRONG, feedback_lower) \/ Contains(KW_INCORRECT, feedback_lower),
         tone_issue  |-> Contains(KW_RUDE, feedback_lower) \/ Contains(KW_INAPPROPRIATE, feedback_lower)]

\* Lines 319-322 with the branches in the other order: too_short wins.
update_response_length_ShortFirst(self, user_id, signals) ==
    IF signals.too_short
    THEN [self EXCEPT !.user_profiles[user_id].preferences =
              DictSet(@, "response_length", "longer")]
    ELSE IF signals.too_long
         THEN [self EXCEPT !.user_profiles[user_id].preferences =
                   DictSet(@, "response_length", "shorter")]
         ELSE self

\* Lines 319-322: if too_long ... elif too_short ...
update_response_length(self, user_id, signals) ==
    IF signals.too_long
    THEN [self EXCEPT !.user_profiles[user_id].preferences =
              DictSet(@, "response_length", "shorter")]
    ELSE IF signals.too_short
         THEN [self EXCEPT !.user_profiles[user_id].preferences =
                   DictSet(@, "response_length", "longer")]
         ELSE self

\* Lines 324-325
update_tone(self, user_id, signals) ==
    IF signals.tone_issue
    THEN [self EXCEPT !.user_profiles[user_id].preferences =
              DictSet(@, "tone", "more_professional")]
    ELSE self

\* The score given with the feedback is also appended to the history.
learn_from_feedback_Scores(self, sb, user_id, feedback, satisfaction_score, env) ==
    LET s1      == get_user_profile(self, user_id)
        s1b     == [s1 EXCEPT !.user_profiles[user_id].satisfaction_history =
                       Append(@, satisfaction_score)]
        signals == improvement_signals(feedback)
        s2      == update_response_length(s1b, user_id, signals)
        s3      == update_tone(s2, user_id, signals)
        M       == mirror(s3, sb, env, "user_learning")
    IN  [self |-> M.self, io |-> M.io, raised |-> M.raised, signals |-> signals]

learn_from_feedback(self, sb, user_id, feedback, satisfaction_score, env) ==
    LET s1      == get_user_profile(self, user_id)
        signals == improvement_signals(feedback)
        s2      == update_response_length(s1, user_id, signals)
        s3      == update_tone(s2, user_id, signals)
        M       == mirror(s3, sb, env, "user_learning")
    IN  [self |-> M.self, io |-> M.io, raised |-> M.raised, signals |-> signals]

----------------------------------------------------------------------------
(* get_reliability_metrics *)

\* An unscored record counted as a score of 0.
ScoresOf_NoneAsZero(records) ==
    [k \in 1..Len(records) |->
        IF records[k].satisfaction_score = None THEN 0
        ELSE records[k].satisfaction_score[1]]

\* [i.satisfaction_score for i in records if i.satisfaction_score is not None]
ScoresOf(records) ==
    LET scored == SelectSeq(records, LAMBDA i : i.satisfaction_score # None)
    IN  [k \in 1..Len(scored) |-> scored[k].satisfaction_score[1]]

\* Lines 365-374: the per-agent table.
agent_performance(records) ==
    LET names == {records[k].agent_name : k \in 1..Len(records)}
    IN  [n \in names |->
            LET mine   == SelectSeq(records, LAMBDA i : i.agent_name = n)
                scores == ScoresOf(mine)
            IN  [count               |-> Len(mine),
                 avg_satisfaction    |-> IF scores # <<>>
                                         THEN Quotient(SumSeq(scores), Len(scores))
                                         ELSE Quotient(0, 1),
                 satisfaction_scores |-> scores]]

\* Line 362
off_track_rate(self) ==
    IF DOMAIN self.user_profiles # {}
    THEN Quotient(Cardinality(DOMAIN self.off_track_patterns),
                  Cardinality(DOMAIN self.user_profiles))
    ELSE Quotient(0, 1)

\* The no-data test made on the profiles instead of the records.
no_data_ByProfiles(self) == DOMAIN self.user_profiles = {}

\* total_interactions == 0
no_data(self) == Len(self.interactions) = 0

get_reliability_metrics(self) ==
    LET total_interactions == Len(self.interactions)
        scores == ScoresOf(self.interactions)
    IN  IF no_data(self)
        THEN [kind |-> "no_data", error |-> "No interactions recorded"]
        ELSE IF Len(scores) = 0
        THEN [kind |-> "raised", exception |-> "ZeroDivisionError"]
        ELSE [kind                 |-> "metrics",
              total_interactions   |-> total_interactions,
              unique_users         |-> Cardinality(DOMAIN self.user_profiles),
              average_satisfaction |-> Quotient(SumSeq(scores), Len(scores)),
              off_track_rate       |-> off_track_rate(self),
              agent_performance    |-> agent_performance(self.interactions)]

----------------------------------------------------------------------------
(* The inputs the calls are made with *)

\* "Hello"
TXT_HELLO ==
    <<"H", "e", "l", "l", "o">>

\* "That is WRONG"
TXT_WRONG ==
    <<"T", "h", "a", "t", " ", "i", "s", " ", "W", "R", "O", "N", "G">>

\* "No, that's not right. Wrong!"
TXT_TWO_PHRASES ==
    <<"N", "o", ",", " ", "t", "h", "a", "t", "'", "s", " ", "n", "o", "t", " ", "r", "i", "g", "h", "t", ".", " ", "W", "r", "o", "n", "g", "!">>

\* "A brief summary"
TXT_BRIEF ==
    <<"A", " ", "b", "r", "i", "e", "f", " ", "s", "u", "m", "m", "a", "r", "y">>

\* "Wrong, keep it brief"
TXT_WRONG_BRIEF ==
    <<"W", "r", "o", "n", "g", ",", " ", "k", "e", "e", "p", " ", "i", "t", " ", "b", "r", "i", "e", "f">>

\* "Explain more"
TXT_EXPLAIN ==
    <<"E", "x", "p", "l", "a", "i", "n", " ", "m", "o", "r", "e">>

\* "Quick, explain"
TXT_QUICK_EXPLAIN ==
    <<"Q", "u", "i", "c", "k", ",", " ", "e", "x", "p", "l", "a", "i", "n">>

\* "This is USELESS"
FB_USELESS ==
    <<"T", "h", "i", "s", " ", "i", "s", " ", "U", "S", "E", "L", "E", "S", "S">>

\* "Thanks"
FB_THANKS ==
    <<"T", "h", "a", "n", "k", "s">>

\* "Too long and rude"
FB_LONG_RUDE ==
    <<"T", "o", "o", " ", "l", "o", "n", "g", " ", "a", "n", "d", " ", "r", "u", "d", "e">>

\* "Too short"
FB_TOO_SHORT ==
    <<"T", "o", "o", " ", "s", "h", "o", "r", "t">>

\* "Verbose, not brief"
FB_VERBOSE_BRIEF ==
    <<"V", "e", "r", "b", "o", "s", "e", ",", " ", "n", "o", "t", " ", "b", "r", "i", "e", "f">>

\* "Wrong and useless"
FB_WRONG_USELESS ==
    <<"W", "r", "o", "n", "g", " ", "a", "n", "d", " ", "u", "s", "e", "l", "e", "s", "s">>

\* "Inappropriate"
FB_INAPPROPRIATE ==
    <<"I", "n", "a", "p", "p", "r", "o", "p", "r", "i", "a", "t", "e">>

\* "OK"
TXT_REPLY ==
    <<"O", "K">>

Users  == {"alice", "bob"}
Agents == {"claims_agent", "email_agent"}

\* The arguments of one record_interaction call.
Args(user_id, agent_name, input_text, satisfaction_score, feedback) ==
    [user_id            |-> user_id,
     interaction_type   |-> "telegram_message",
     agent_name         |-> agent_name,
     input_text         |-> input_text,
     output_text        |-> TXT_REPLY,
     satisfaction_score |-> satisfaction_score,
     feedback           |-> feedback,
     metadata           |-> None]

\* How the storage client answers during one call.
Envs ==
    [probe_interactions : {"ok", "missing", "error"},
     probe_learning     : {"ok", "missing", "error"},
     insert             : {"ok", "raise"}]
QuietEnv == [probe_interactions |-> "ok", probe_learning |-> "ok", insert |-> "ok"]

BasePrompts == {<<>>, <<"You are a helpful assistant.">>}

\* Bounds of the explored runs.
MaxRecords         == 2
MaxRecordsOffTrack == 2
MaxRecordsStorage  == 2
MaxRecordsStyle    == 4
MaxRecordsPrompt   == 6
MaxRecordsLearn    == 1
MaxClock           == 7
MaxCallsConcurrent == 2

----------------------------------------------------------------------------
(* The state *)

\* The execution contexts that call into the one module-level tracker.
Threads == {"t1", "t2"}

\* A context that is not inside record_interaction.
IdleThread == [pc |-> "idle", interaction |-> None, profile_stored |-> FALSE, tmp |-> 0]

VARIABLES
    interactions,                 \* self.interactions
    user_profiles,                \* self.user_profiles
    off_track_patterns,           \* self.off_track_patterns
    supabase_tables_checked,      \* self._supabase_tables_checked
    has_user_interactions_table,  \* self._has_user_interactions_table
    has_user_learning_table,      \* self._has_user_learning_table
    supabase,                     \* the module-level client: TRUE when configured
    now,                          \* the reading of datetime.now(), in days
    storage_log,                  \* probes run and notices printed so far
    ret,                          \* the last call: its name, arguments and result
    reference,                    \* the tracker the same calls build with no client
    threads                       \* where each caller's record_interaction stands

vars == <<interactions, user_profiles, off_track_patterns, supabase_tables_checked,
          has_user_interactions_table, has_user_learning_table, supabase, now,
          storage_log, ret, reference, threads>>

\* The tracker object, as the operators above take it.
Self ==
    [interactions                |-> interactions,
     user_profiles               |-> user_profiles,
     off_track_patterns          |-> off_track_patterns,
     supabase_tables_checked     |-> supabase_tables_checked,
     has_user_interactions_table |-> has_user_interactions_table,
     has_user_learning_table     |-> has_user_learning_table]

\* The next state holds the tracker s.
Install(s) ==
    /\ interactions' = s.interactions
    /\ user_profiles' = s.user_profiles
    /\ off_track_patterns' = s.off_track_patterns
    /\ supabase_tables_checked' = s.supabase_tables_checked
    /\ has_user_interactions_table' = s.has_user_interactions_table
    /\ has_user_learning_table' = s.has_user_learning_table

\* The in-memory part of a tracker.
Memory(s) ==
    [interactions       |-> s.interactions,
     user_profiles      |-> s.user_profiles,
     off_track_patterns |-> s.off_track_patterns]

Logged(io) ==
    [probes  |-> storage_log.probes + io.probes,
     notices |-> storage_log.notices + io.notices]

Call(op, arg, out, io, raised) ==
    [op |-> op, arg |-> arg, out |-> out, io |-> io, raised |-> raised]

\* The state after `behavior_tracker = UserBehaviorTracker()`.
InitWith(clients) ==
    /\ interactions = NewTracker.interactions
    /\ user_profiles = NewTracker.user_profiles
    /\ off_track_patterns = NewTracker.off_track_patterns
    /\ supabase_tables_checked = NewTracker.supabase_tables_checked
    /\ has_user_interactions_table = NewTracker.has_user_interactions_table
    /\ has_user_learning_table = NewTracker.has_user_learning_table
    /\ supabase \in clients
    /\ now = 0
    /\ storage_log = [probes |-> 0, notices |-> 0]
    /\ ret = Call("init", None, None, NoIO, FALSE)
    /\ reference = NewTracker
    /\ threads = [t \in Threads |-> IdleThread]

----------------------------------------------------------------------------
(* The operations *)

RecordInteraction(a, env, limit) ==
    /\ Len(interactions) < limit
    /\ LET R == record_interaction(Self, supabase, now, a, env)
           G == record_interaction(reference, FALSE, now, a, env)
       IN  /\ Install(R.self)
           /\ reference' = G.self
           /\ storage_log' = Logged(R.io)
           /\ ret' = Call("record_interaction", a, None, R.io, R.raised)
    /\ UNCHANGED <<supabase, now, threads>>

GetUserProfile(user_id) ==
    /\ LET s == get_user_profile(Self, user_id)
       IN  /\ Install(s)
           /\ ret' = Call("get_user_profile", user_id, s.user_profiles[user_id], NoIO, FALSE)
    /\ reference' = get_user_profile(reference, user_id)
    /\ UNCHANGED <<supabase, now, storage_log, threads>>

AnalyzeResponseStylePreference(user_id) ==
    /\ LET R == analyze_response_style_preference(Self, user_id, now)
       IN  /\ Install(R.self)
           /\ ret' = Call("analyze_response_style_preference", user_id, R.out, NoIO, FALSE)
    /\ reference' = analyze_response_style_preference(reference, user_id, now).self
    /\ UNCHANGED <<supabase, now, storage_log, threads>>

GetPersonalizedPromptAdjustments(user_id, base_prompt) ==
    /\ LET R == get_personalized_prompt_adjustments(Self, user_id, base_prompt, now)
       IN  /\ Install(R.self)
           /\ ret' = Call("get_personalized_prompt_adjustments",
                          [user_id |-> user_id, base_prompt |-> base_prompt],
                          [text |-> R.out, adjustments |-> R.adjustments], NoIO, FALSE)
    /\ reference' =
           get_personalized_prompt_adjustments(reference, user_id, base_prompt, now).self
    /\ UNCHANGED <<supabase, now, storage_log, threads>>

LearnFromFeedback(user_id, feedback, satisfaction_score, env) ==
    /\ LET R == learn_from_feedback(Self, supabase, user_id, feedback, satisfaction_score, env)
           G == learn_from_feedback(reference, FALSE, user_id, feedback, satisfaction_score, env)
       IN  /\ Install(R.self)
           /\ reference' = G.self
           /\ storage_log' = Logged(R.io)
           /\ ret' = Call("learn_from_feedback",
                          [user_id |-> user_id, feedback |-> feedback,
                           satisfaction_score |-> satisfaction_score],
                          R.signals, R.io, R.raised)
    /\ UNCHANGED <<supabase, now, threads>>

GetReliabilityMetrics ==
    /\ ret' = Call("get_reliability_metrics", None, get_reliability_metrics(Self), NoIO, FALSE)
    /\ UNCHANGED <<interactions, user_profiles, off_track_patterns, supabase_tables_checked,
                   has_user_interactions_table, has_user_learning_table, supabase, now,
                   storage_log, reference, threads>>

\* Time passes between two calls.
Tick(days) ==
    /\ now + days <= MaxClock
    /\ now' = now + days
    /\ ret' = Call("tick", days, None, NoIO, FALSE)
    /\ UNCHANGED <<interactions, user_profiles, off_track_patterns, supabase_tables_checked,
                   has_user_interactions_table, has_user_learning_table, supabase,
                   storage_log, reference, threads>>

----------------------------------------------------------------------------
(* The store (Spec): two users, two agents, scored and unscored interactions *)

Init == InitWith({FALSE})

StoreArgs ==
    {Args(u, g, TXT_HELLO, s, None) : u \in Users, g \in Agents, s \in {None, Some(2), Some(5)}}
    \cup {Args("alice", "claims_agent", TXT_WRONG, None, None)}

Next ==
    \/ \E a \in StoreArgs : RecordInteraction(a, QuietEnv, MaxRecords)
    \/ \E u \in Users : GetUserProfile(u)
    \/ \E u \in Users : AnalyzeResponseStylePreference(u)
    \/ \E u \in Users : GetPersonalizedPromptAdjustments(u, <<>>)
    \/ \E u \in Users : LearnFromFeedback(u, FB_THANKS, 5, QuietEnv)
    \/ GetReliabilityMetrics

Spec == Init /\ [][Next]_vars

----------------------------------------------------------------------------
(* Claims about the store (Spec) *)

\* The positions of user u's records in the interaction sequence.
RecordsOf(u) == {k \in 1..Len(interactions) : interactions[k].user_id = u}

\* The positions of the records that carry a satisfaction score.
Scored == {k \in 1..Len(interactions) : interactions[k].satisfaction_score # None}

RECURSIVE TotalScore(_)
\* The sum of the scores of the records at the positions S.
TotalScore(S) ==
    IF S = {} THEN 0
    ELSE LET k == CHOOSE x \in S : TRUE
         IN  interactions[k].satisfaction_score[1] + TotalScore(S \ {k})

RECURSIVE CountSum(_, _)
\* The sum of the record counts the per-agent table perf gives the agents S.
CountSum(perf, S) ==
    IF S = {} THEN 0
    ELSE LET n == CHOOSE x \in S : TRUE
         IN  perf[n].count + CountSum(perf, S \ {n})

\* The record matches a trigger: a phrase in its input or feedback text, or a
\* score that is present and below 3.
Triggering(i) ==
    \/ \E k \in 1..Len(off_track_indicators) : IndicatorMatches(off_track_indicators[k], i)
    \/ (i.satisfaction_score # None /\ i.satisfaction_score[1] < 3)

\* C1: for every user with a profile, interaction_count is the number of the
\* store's records of that user, and every user with a record has a profile.
C1_CountMatchesRecords ==
    /\ \A u \in DOMAIN user_profiles :
          user_profiles[u].interaction_count = Cardinality(RecordsOf(u))
    /\ \A k \in 1..Len(interactions) : interactions[k].user_id \in DOMAIN user_profiles

\* One user has two records and another has a profile made by learn_from_feedback.
C1_Witness ==
    /\ ret.op = "learn_from_feedback"
    /\ \E u, v \in DOMAIN user_profiles :
          /\ user_profiles[u].interaction_count = 2
          /\ user_profiles[v].interaction_count = 0

\* C5: get_reliability_metrics returns the no-data result (an error field, no
\* numeric field) exactly when the store holds no record, however many profiles
\* exist; once a record is kept no later call returns it.
C5_NoDataIffEmpty ==
    /\ [](/\ (get_reliability_metrics(Self).kind = "no_data") <=> (Len(interactions) = 0)
          /\ ret.op = "get_reliability_metrics" =>
                /\ (ret.out.kind = "no_data") <=> (Len(interactions) = 0)
                /\ ret.out.kind = "no_data" =>
                      /\ "error" \in DOMAIN ret.out
                      /\ DOMAIN ret.out \cap {"total_interactions", "unique_users",
                             "average_satisfaction", "off_track_rate"} = {})
    /\ [][(Len(interactions) > 0 /\ ret'.op = "get_reliability_metrics")
             => ret'.out.kind # "no_data"]_vars

\* The no-data result is returned while both users have a profile.
C5_Witness ==
    /\ ret.op = "get_reliability_metrics"
    /\ ret.out.kind = "no_data"
    /\ Cardinality(DOMAIN user_profiles) = 2

\* C6: with at least one record, the off-track rate is the number of users with
\* a non-zero counter over the number of profiles, lies in [0,1] and is 0 when
\* no record ever triggered; every entry of the counter map belongs to a user
\* with a profile and is at least 1 (no query adds a zero entry).
C6_OffTrackRate ==
    /\ \A u \in DOMAIN off_track_patterns :
          u \in DOMAIN user_profiles /\ off_track_patterns[u] >= 1
    /\ Len(interactions) > 0 =>
          LET r       == off_track_rate(Self)
              flagged == {u \in Users : DictGet(off_track_patterns, u, 0) # 0}
              known   == Cardinality(DOMAIN user_profiles)
          IN  /\ known > 0 /\ r.den > 0
              /\ r.num * known = Cardinality(flagged) * r.den
              /\ 0 <= r.num /\ r.num <= r.den
              /\ (\A k \in 1..Len(interactions) : ~Triggering(interactions[k])) => r.num = 0
    /\ (ret.op = "get_reliability_metrics" /\ ret.out.kind = "metrics") =>
          ret.out.off_track_rate = off_track_rate(Self)

\* A report with rate 1/2: one of the two users with a profile
\* has triggered the detector.
C6_Witness ==
    /\ ret.op = "get_reliability_metrics"
    /\ ret.out.kind = "metrics"
    /\ ret.out.off_track_rate.num = 1 /\ ret.out.off_track_rate.den = 2
    /\ Cardinality(DOMAIN off_track_patterns) = 1

\* C7: with at least one scored record the report gives the number of records,
\* the number of profiles, the mean of the present scores over the scored
\* records only, and per agent its record count and the mean of its scored
\* records (0 with none); the agents' counts add up to the total.
C7_MetricsValues ==
    (ret.op = "get_reliability_metrics" /\ Scored # {}) =>
        LET m      == ret.out
            agents == {interactions[k].agent_name : k \in 1..Len(interactions)}
            Of(n)  == {k \in 1..Len(interactions) : interactions[k].agent_name = n}
        IN  /\ m.kind = "metrics"
            /\ m.total_interactions = Len(interactions)
            /\ m.unique_users = Cardinality(DOMAIN user_profiles)
            /\ m.average_satisfaction.den > 0
            /\ m.average_satisfaction.num * Cardinality(Scored)
                  = TotalScore(Scored) * m.average_satisfaction.den
            /\ DOMAIN m.agent_performance = agents
            /\ \A n \in agents :
                  LET p == m.agent_performance[n]
                  IN  /\ p.count = Cardinality(Of(n))
                      /\ p.avg_satisfaction.den > 0
                      /\ IF Of(n) \cap Scored = {}
                         THEN p.avg_satisfaction.num = 0
                         ELSE p.avg_satisfaction.num * Cardinality(Of(n) \cap Scored)
                                 = TotalScore(Of(n) \cap Scored) * p.avg_satisfaction.den
            /\ CountSum(m.agent_performance, agents) = m.total_interactions

\* A report over a scored and an unscored record of two agents, one of which
\* has no scored record.
C7_Witness ==
    /\ ret.op = "get_reliability_metrics"
    /\ ret.out.kind = "metrics"
    /\ Len(interactions) = 2
    /\ Cardinality(Scored) = 1
    /\ \E n \in DOMAIN ret.out.agent_performance :
          /\ ret.out.agent_performance[n].satisfaction_scores = <<>>
          /\ ret.out.agent_performance[n].avg_satisfaction.num = 0

----------------------------------------------------------------------------
(* The off-track detector (SpecOffTrack): phrases in the input, in the       *)
(* feedback, in both or in neither, with no score, a low score and a score   *)
(* of exactly 3                                                              *)

OffTrackArgs ==
    {Args("alice", "claims_agent", t, s, f) :
        t \in {TXT_HELLO, TXT_TWO_PHRASES},
        s \in {None, Some(2), Some(3)},
        f \in {None, Some(FB_USELESS)}}
    \cup {Args("bob", "claims_agent", TXT_HELLO, s, None) : s \in {None, Some(2)}}

NextOffTrack ==
    \/ \E a \in OffTrackArgs : RecordInteraction(a, QuietEnv, MaxRecordsOffTrack)
    \/ GetUserProfile("bob")
    \/ AnalyzeResponseStylePreference("bob")
    \/ \E u \in Users : GetPersonalizedPromptAdjustments(u, <<>>)
    \/ LearnFromFeedback("bob", FB_USELESS, 2, QuietEnv)
    \/ GetReliabilityMetrics

SpecOffTrack == Init /\ [][NextOffTrack]_vars

\* C2: a record_interaction call adds exactly 1 to the caller's off-track
\* counter when the interaction matches at least one trigger (however many
\* match) and 0 otherwise, and leaves every other user's counter alone; so a
\* user's counter is the number of that user's triggering records, repeated
\* identical ones included.
C2_OffTrackIncrement ==
    /\ [](\A u \in Users :
            DictGet(off_track_patterns, u, 0) =
                Cardinality({k \in RecordsOf(u) : Triggering(interactions[k])}))
    /\ [][ret'.op = "record_interaction" =>
            LET a == ret'.arg
            IN  /\ DictGet(off_track_patterns', a.user_id, 0) =
                      DictGet(off_track_patterns, a.user_id, 0)
                          + (IF Triggering(a) THEN 1 ELSE 0)
                /\ \A v \in Users \ {a.user_id} :
                      DictGet(off_track_patterns', v, 0) = DictGet(off_track_patterns, v, 0)]_vars

\* Two identical calls whose input matches two phrases, whose feedback matches
\* a third and whose score is low: the counter stands at 2.
C2_Witness ==
    /\ ret.op = "record_interaction"
    /\ Len(interactions) = 2
    /\ interactions[1] = interactions[2]
    /\ interactions[2].input_text = TXT_TWO_PHRASES
    /\ interactions[2].feedback = Some(FB_USELESS)
    /\ interactions[2].satisfaction_score = Some(2)
    /\ Cardinality({k \in 1..Len(off_track_indicators) :
                      IndicatorMatches(off_track_indicators[k], interactions[2])}) >= 3
    /\ off_track_patterns["alice"] = 2

----------------------------------------------------------------------------
(* Storage (SpecStorage): the client is configured or not, and every probe   *)
(* and insert may succeed or fail in each call                               *)

InitStorage == InitWith(BOOLEAN)

StorageArgs ==
    {Args("alice", "claims_agent", TXT_HELLO, s, None) : s \in {None, Some(2)}}

NextStorage ==
    \/ \E a \in StorageArgs, env \in Envs : RecordInteraction(a, env, MaxRecordsStorage)
    \/ \E env \in Envs : LearnFromFeedback("alice", FB_LONG_RUDE, 2, env)
    \/ GetUserProfile("bob")
    \/ AnalyzeResponseStylePreference("alice")
    \/ GetPersonalizedPromptAdjustments("alice", <<>>)
    \/ GetReliabilityMetrics

SpecStorage == InitStorage /\ [][NextStorage]_vars

\* The flags the capability probe sets.
TableFlags == <<has_user_interactions_table, has_user_learning_table>>

\* C3: whatever the storage client does, no call raises and the in-memory
\* state (records, profiles with their histories and preferences, off-track
\* counters) is the one the same calls build with no client; so style
\* inference, personalization and the report give the same results.
C3_StorageNeverMatters ==
    /\ ~ret.raised
    /\ Memory(Self) = Memory(reference)
    /\ get_reliability_metrics(Self) = get_reliability_metrics(reference)
    /\ \A u \in Users :
          /\ analyze_response_style_preference(Self, u, now).out
                = analyze_response_style_preference(reference, u, now).out
          /\ \A p \in BasePrompts :
                get_personalized_prompt_adjustments(Self, u, p, now).out
                    = get_personalized_prompt_adjustments(reference, u, p, now).out

\* A second record was kept by a call whose insert raised, after the probe
\* found the learning table missing.
C3_Witness ==
    /\ supabase
    /\ ret.op = "record_interaction"
    /\ ret.io.inserts = {"user_interactions"}
    /\ ret.io.warnings = 1
    /\ ~has_user_learning_table
    /\ Len(interactions) = 2
    /\ "response_length" \in DOMAIN user_profiles["alice"].preferences

\* C4: the probe runs at most once, on the first record_interaction or
\* learn_from_feedback call made with a client; after it the table flags never
\* change, a table found absent is never inserted into, and the 'tables not
\* found' notice is printed at most once.
C4_ProbeOnce ==
    /\ [](/\ storage_log.probes <= 1
          /\ storage_log.notices <= 1
          /\ supabase_tables_checked <=> (storage_log.probes = 1)
          /\ ~supabase => ~supabase_tables_checked
          /\ ~supabase_tables_checked => ret.io.inserts = {}
          /\ ~has_user_interactions_table => "user_interactions" \notin ret.io.inserts
          /\ ~has_user_learning_table => "user_learning" \notin ret.io.inserts)
    /\ [][LET write == ret'.op \in {"record_interaction", "learn_from_feedback"}
          IN  /\ (supabase /\ write /\ ~supabase_tables_checked) =>
                    (supabase_tables_checked' /\ ret'.io.probes = 1)
              /\ ~write => UNCHANGED <<supabase_tables_checked, TableFlags, storage_log>>
              /\ supabase_tables_checked =>
                    /\ UNCHANGED <<supabase_tables_checked, TableFlags, storage_log>>
                    /\ ret'.io.probes = 0 /\ ret'.io.notices = 0
                    /\ ~has_user_interactions_table => "user_interactions" \notin ret'.io.inserts
                    /\ ~has_user_learning_table => "user_learning" \notin ret'.io.inserts]_vars

\* After a probe that found only the interactions table missing, a later
\* learn_from_feedback call inserts into the learning table without probing.
C4_Witness ==
    /\ supabase_tables_checked
    /\ ~has_user_interactions_table /\ has_user_learning_table
    /\ storage_log = [probes |-> 1, notices |-> 1]
    /\ Len(interactions) = 2
    /\ ret.op = "learn_from_feedback"
    /\ ret.io.probes = 0
    /\ ret.io.inserts = {"user_learning"}

----------------------------------------------------------------------------
(* Style inference (SpecStyle): inputs with concise and detailed indicators, *)
(* recorded at different times                                               *)

StyleArgs ==
    {Args("alice", "claims_agent", t, None, None) :
        t \in {TXT_BRIEF, TXT_EXPLAIN, TXT_QUICK_EXPLAIN}}
    \cup {Args("bob", "claims_agent", TXT_BRIEF, None, None)}

NextStyle ==
    \/ \E a \in StyleArgs : RecordInteraction(a, QuietEnv, MaxRecordsStyle)
    \/ \E d \in {6, 7} : Tick(d)
    \/ \E u \in Users : AnalyzeResponseStylePreference(u)

SpecStyle == Init /\ [][NextStyle]_vars

\* The interaction_count of user u, 0 for a user with no profile.
CountOf(u) == IF u \in DOMAIN user_profiles THEN user_profiles[u].interaction_count ELSE 0

\* C8: style inference returns balanced for every user, seen or not, whose
\* interaction_count is below 3, whatever that user's records say and whenever
\* they were made.
C8_BalancedBelowThree ==
    /\ \A u \in Users :
          CountOf(u) < 3 => analyze_response_style_preference(Self, u, now).out = "balanced"
    /\ (ret.op = "analyze_response_style_preference" /\ CountOf(ret.arg) < 3) =>
          ret.out = "balanced"

\* Balanced is returned for a user whose two records, both inside the window,
\* both ask for something brief.
C8_Witness ==
    /\ ret.op = "analyze_response_style_preference"
    /\ ret.out = "balanced"
    /\ CountOf(ret.arg) = 2
    /\ \A k \in RecordsOf(ret.arg) :
          /\ interactions[k].input_text = TXT_BRIEF
          /\ now - fromisoformat(interactions[k].timestamp) < 7
    /\ now > 0

\* The positions of user u's records made less than 7 days before now.
RecentOf(u) ==
    {k \in RecordsOf(u) : now - fromisoformat(interactions[k].timestamp) < 7}

\* The number of the records at the positions S whose input text, lowercased,
\* contains one of the indicators.
IndicatorCount(indicators, S) ==
    Cardinality({k \in S : ContainsAny(indicators, lower(interactions[k].input_text))})

\* The style the records say: each of the user's recent records is counted for
\* concise and for detailed independently, and the larger count wins.
StyleByCounts(u) ==
    LET concise  == IndicatorCount(concise_indicators, RecentOf(u))
        detailed == IndicatorCount(detailed_indicators, RecentOf(u))
    IN  IF concise > detailed THEN "concise"
        ELSE IF detailed > concise THEN "detailed"
        ELSE "balanced"

\* C14: for a user with interaction_count of 3 or more, style inference looks
\* only at that user's records less than 7 days old, counts the ones with a
\* concise indicator and the ones with a detailed indicator independently, and
\* returns the majority, balanced on a tie (all records 7 days old included).
C14_StyleByRecentCounts ==
    /\ \A u \in Users :
          CountOf(u) >= 3 =>
             analyze_response_style_preference(Self, u, now).out = StyleByCounts(u)
    /\ (ret.op = "analyze_response_style_preference" /\ CountOf(ret.arg) >= 3) =>
          /\ ret.out = StyleByCounts(ret.arg)
          /\ RecentOf(ret.arg) = {} => ret.out = "balanced"

\* Balanced is returned for a user with three records, all asking for something
\* brief and all exactly 7 days old, while another user's brief record is new.
C14_Witness ==
    /\ ret.op = "analyze_response_style_preference"
    /\ ret.out = "balanced"
    /\ CountOf(ret.arg) = 3
    /\ \A k \in RecordsOf(ret.arg) :
          /\ interactions[k].input_text = TXT_BRIEF
          /\ now - fromisoformat(interactions[k].timestamp) = 7
    /\ \E k \in 1..Len(interactions) :
          /\ interactions[k].user_id # ret.arg
          /\ interactions[k].input_text = TXT_BRIEF
          /\ now - fromisoformat(interactions[k].timestamp) = 0


----------------------------------------------------------------------------
(* Prompt personalization (SpecPrompt): a user with up to six records that   *)
(* are scored 2, scored 4, or unscored with an off-track phrase, with or     *)
(* without a concise indicator; a second user with at most one record        *)

PromptArgs ==
    {Args("alice", "claims_agent", TXT_HELLO, Some(2), None),
     Args("alice", "claims_agent", TXT_HELLO, Some(4), None),
     Args("alice", "claims_agent", TXT_WRONG_BRIEF, None, None)}

\* A message with an off-track phrase and nothing else: sent only among the
\* first three, which is what the off-track directive takes.
PromptArgOffTrackOnly == Args("alice", "claims_agent", TXT_WRONG, None, None)

\* Another user's record, off-track and scored low: the first record only.
PromptArgOtherUser == Args("bob", "claims_agent", TXT_WRONG, Some(2), None)

NextPrompt ==
    \/ \E a \in PromptArgs : RecordInteraction(a, QuietEnv, MaxRecordsPrompt)
    \/ RecordInteraction(PromptArgOffTrackOnly, QuietEnv, OffTrackThreshold + 1)
    \/ RecordInteraction(PromptArgOtherUser, QuietEnv, 1)
    \/ \E p \in BasePrompts : GetPersonalizedPromptAdjustments("alice", p)

SpecPrompt == Init /\ [][NextPrompt]_vars

\* The last (at most) five entries of a satisfaction history add up to at
\* least 4 times their number.
RecentMeanAtLeastFour(history) ==
    LET first == IF Len(history) > 5 THEN Len(history) - 4 ELSE 1
        S     == first..Len(history)
        total == SumSeq([k \in 1..Cardinality(S) |-> history[first + k - 1]])
    IN  total >= 4 * Cardinality(S)

\* C9: the personalizer returns the base prompt itself when the inferred style
\* is balanced, the off-track counter is at most 2 and the satisfaction
\* history is empty or its last five entries average at least 4; in every
\* other case it returns the base prompt followed by a non-empty block.
C9_UnchangedOrAppended ==
    ret.op = "get_personalized_prompt_adjustments" =>
        LET u       == ret.arg.user_id
            base    == ret.arg.base_prompt
            text    == ret.out.text
            history == user_profiles[u].satisfaction_history
            plain   == /\ analyze_response_style_preference(Self, u, now).out = "balanced"
                       /\ DictGet(off_track_patterns, u, 0) <= 2
                       /\ (history = <<>> \/ RecentMeanAtLeastFour(history))
        IN  IF plain
            THEN text = base
            ELSE /\ Len(text) > Len(base)
                 /\ SubSeq(text, 1, Len(base)) = base
                 /\ \E k \in (Len(base) + 1)..Len(text) : Len(text[k]) > 0

\* The base prompt comes back unchanged for a user with one off-track record
\* and six scores of which only the last five average 4.
C9_Witness ==
    /\ ret.op = "get_personalized_prompt_adjustments"
    /\ ret.arg.user_id = "alice"
    /\ ret.arg.base_prompt # <<>>
    /\ ret.out.text = ret.arg.base_prompt
    /\ off_track_patterns = [alice |-> 1]
    /\ user_profiles["alice"].satisfaction_history = <<2, 4, 4, 4, 4, 4>>

\* The elements of the sequence s.
Range(s) == {s[k] : k \in DOMAIN s}

\* The directives a call for user u has to list, in order, given the style
\* inferred for u, u's off-track counter and u's satisfaction history.
ExpectedDirectives(u) ==
    LET style   == analyze_response_style_preference(Self, u, now).out
        history == IF u \in DOMAIN user_profiles
                   THEN user_profiles[u].satisfaction_history ELSE <<>>
    IN  (IF style = "concise" THEN <<ADJ_CONCISE>>
         ELSE IF style = "detailed" THEN <<ADJ_DETAILED>>
         ELSE <<>>)
        \o (IF DictGet(off_track_patterns, u, 0) > 2 THEN <<ADJ_OFF_TRACK>> ELSE <<>>)
        \o (IF history # <<>> /\ ~RecentMeanAtLeastFour(history)
            THEN <<ADJ_LOW_SATISFACTION>> ELSE <<>>)

\* C15: the personalization block lists the directives in the fixed order
\* style, off-track, low-satisfaction, each at most once: the style directive
\* exactly when the inferred style is not balanced, the off-track directive
\* exactly when the counter is above 2 (not at 2), the low-satisfaction one
\* exactly when the history is non-empty and its last five entries average
\* below 4.  The block is the header followed by one "- " line per directive.
C15_DirectivesInOrder ==
    ret.op = "get_personalized_prompt_adjustments" =>
        LET u        == ret.arg.user_id
            base     == ret.arg.base_prompt
            text     == ret.out.text
            expected == ExpectedDirectives(u)
            n        == Len(expected)
        IN  /\ ret.out.adjustments = expected
            /\ DictGet(off_track_patterns, u, 0) = 2 => ADJ_OFF_TRACK \notin Range(expected)
            /\ n = 0 => text = base
            /\ n > 0 =>
                  /\ Len(text) = Len(base) + 3 * n
                  /\ SubSeq(text, 1, Len(base)) = base
                  /\ text[Len(base) + 1] = NOTES_HEADER
                  /\ \A j \in 1..n :
                        /\ text[Len(base) + 3 * j - 1] = "- "
                        /\ text[Len(base) + 3 * j] = expected[j]
                        /\ j < n => text[Len(base) + 3 * j + 1] = "\n"

\* All three directives are listed for a user whose off-track counter is 3.
C15_Witness ==
    /\ ret.op = "get_personalized_prompt_adjustments"
    /\ ret.arg.base_prompt # <<>>
    /\ ret.out.adjustments = <<ADJ_CONCISE, ADJ_OFF_TRACK, ADJ_LOW_SATISFACTION>>
    /\ DictGet(off_track_patterns, ret.arg.user_id, 0) = 3

RECURSIVE ScoresUpTo(_, _)
\* The scores of user u's scored records among the first n, oldest first.
ScoresUpTo(u, n) ==
    IF n = 0 THEN <<>>
    ELSE LET i    == interactions[n]
             rest == ScoresUpTo(u, n - 1)
         IN  IF i.user_id = u /\ i.satisfaction_score # None
             THEN Append(rest, i.satisfaction_score[1])
             ELSE rest

RECURSIVE SumAt(_, _)
\* The sum of the entries of s at the positions S.
SumAt(s, S) ==
    IF S = {} THEN 0
    ELSE LET k == CHOOSE x \in S : TRUE
         IN  s[k] + SumAt(s, S \ {k})

\* C18: the satisfaction history of every user is the sequence of the scores
\* of that user's scored records, in record order, so it is no longer than
\* interaction_count; the low-satisfaction directive is decided by the mean of
\* the user's five most recent scored records.
C18_HistoryIsScoredRecords ==
    /\ \A u \in DOMAIN user_profiles :
          /\ user_profiles[u].satisfaction_history = ScoresUpTo(u, Len(interactions))
          /\ Len(user_profiles[u].satisfaction_history) <= user_profiles[u].interaction_count
    /\ ret.op = "get_personalized_prompt_adjustments" =>
          LET scores == ScoresUpTo(ret.arg.user_id, Len(interactions))
              last5  == {k \in 1..Len(scores) : k > Len(scores) - 5}
          IN  (ADJ_LOW_SATISFACTION \in Range(ret.out.adjustments))
                 <=> (scores # <<>> /\ SumAt(scores, last5) < 4 * Cardinality(last5))

\* The low-satisfaction directive is listed for a user with six scored
\* records of which only the newest is low.
C18_Witness ==
    /\ ret.op = "get_personalized_prompt_adjustments"
    /\ ret.arg.user_id = "alice"
    /\ ADJ_LOW_SATISFACTION \in Range(ret.out.adjustments)
    /\ user_profiles["alice"].satisfaction_history = <<4, 4, 4, 4, 4, 2>>

\* A call for user u made on the tracker s at time clock lists the off-track
\* directive.
OffTrackIncludedIn(s, u, clock) ==
    ADJ_OFF_TRACK \in
        Range(get_personalized_prompt_adjustments(s, u, <<>>, clock).adjustments)

\* A call for user u made now would list the off-track directive.
OffTrackIncluded(u) == OffTrackIncludedIn(Self, u, now)

\* The tracker of the next state.
SelfNext ==
    [interactions                |-> interactions',
     user_profiles               |-> user_profiles',
     off_track_patterns          |-> off_track_patterns',
     supabase_tables_checked     |-> supabase_tables_checked',
     has_user_interactions_table |-> has_user_interactions_table',
     has_user_learning_table     |-> has_user_learning_table']

\* The number of user u's records that triggered the off-track detector.
TriggeringCount(u) ==
    Cardinality({k \in RecordsOf(u) : Triggering(interactions[k])})

\* C19: the off-track directive is sticky.  Once a call for a user lists it,
\* every later call for that user lists it too, whatever is recorded in
\* between; and no call lists it before the user's third triggering
\* interaction.
C19_OffTrackSticky ==
    /\ [](/\ \A u \in Users : OffTrackIncluded(u) => TriggeringCount(u) >= 3
          /\ ret.op = "get_personalized_prompt_adjustments" =>
                /\ (ADJ_OFF_TRACK \in Range(ret.out.adjustments))
                      <=> OffTrackIncluded(ret.arg.user_id)
                /\ (ADJ_OFF_TRACK \in Range(ret.out.adjustments))
                      => TriggeringCount(ret.arg.user_id) >= 3)
    /\ [][\A u \in Users :
             OffTrackIncluded(u) => OffTrackIncludedIn(SelfNext, u, now')]_vars

\* The directive is listed in a call made after the user's third triggering
\* record was followed by a well-rated one that triggers nothing.
C19_Witness ==
    /\ ret.op = "get_personalized_prompt_adjustments"
    /\ ADJ_OFF_TRACK \in Range(ret.out.adjustments)
    /\ TriggeringCount(ret.arg.user_id) = 3
    /\ Len(interactions) >= 4
    /\ interactions[Len(interactions)].user_id = ret.arg.user_id
    /\ interactions[Len(interactions)].satisfaction_score = Some(4)
    /\ ~Triggering(interactions[Len(interactions)])

----------------------------------------------------------------------------
(* Feedback learning (SpecLearn): feedback texts that set each signal alone, *)
(* several at once, or none                                                  *)

LearnFeedbacks ==
    {FB_LONG_RUDE, FB_TOO_SHORT, FB_VERBOSE_BRIEF, FB_WRONG_USELESS, FB_INAPPROPRIATE, FB_THANKS}

LearnArgs ==
    {Args("alice", "claims_agent", TXT_HELLO, None, None),
     Args("bob", "email_agent", TXT_WRONG, Some(2), Some(FB_USELESS))}

NextLearn ==
    \/ \E u \in Users, f \in LearnFeedbacks, s \in {2, 5} : LearnFromFeedback(u, f, s, QuietEnv)
    \/ \E a \in LearnArgs : RecordInteraction(a, QuietEnv, MaxRecordsLearn)
    \/ GetUserProfile("alice")
    \/ AnalyzeResponseStylePreference("alice")
    \/ GetPersonalizedPromptAdjustments("bob", <<>>)
    \/ GetReliabilityMetrics

SpecLearn == Init /\ [][NextLearn]_vars

\* The preferences of user u in the profile map, empty for a user without a profile.
PreferencesOf(profiles, u) ==
    IF u \in DOMAIN profiles THEN profiles[u].preferences ELSE <<>>

\* Preference key holds value in the preferences after, or is as it was before.
SetOrKept(before, after, key, set, value) ==
    IF set
    THEN key \in DOMAIN after /\ after[key] = value
    ELSE /\ key \in DOMAIN after <=> key \in DOMAIN before
         /\ key \in DOMAIN after => after[key] = before[key]

\* C10: learn_from_feedback leaves response_length 'shorter' if too_long is
\* set, else 'longer' if too_short is set, else as it was; tone
\* 'more_professional' if tone_issue is set, else as it was; not_helpful and
\* inaccurate change nothing, and no other user's preferences change.
C10_LearnedPreferences ==
    [][ret'.op = "learn_from_feedback" =>
          LET u      == ret'.arg.user_id
              sig    == ret'.out
              before == PreferencesOf(user_profiles, u)
              after  == PreferencesOf(user_profiles', u)
          IN  /\ u \in DOMAIN user_profiles'
              /\ SetOrKept(before, after, "response_length",
                           sig.too_long \/ sig.too_short,
                           IF sig.too_long THEN "shorter" ELSE "longer")
              /\ SetOrKept(before, after, "tone", sig.tone_issue, "more_professional")
              /\ DOMAIN after \subseteq {"response_length", "tone"}
              /\ \A v \in Users \ {u} :
                    PreferencesOf(user_profiles', v) = PreferencesOf(user_profiles, v)]_vars

\* Feedback with both too_long and too_short leaves 'shorter', next to a tone
\* learned earlier, while the other user prefers 'longer'.
C10_Witness ==
    /\ ret.op = "learn_from_feedback"
    /\ ret.arg.user_id = "alice"
    /\ ret.arg.feedback = FB_VERBOSE_BRIEF
    /\ ret.out.too_long /\ ret.out.too_short /\ ~ret.out.tone_issue
    /\ PreferencesOf(user_profiles, "alice") =
          [response_length |-> "shorter", tone |-> "more_professional"]
    /\ PreferencesOf(user_profiles, "bob") = [response_length |-> "longer"]

\* The fields of the profile p other than its preferences.
WithoutPreferences(p) == [f \in DOMAIN p \ {"preferences"} |-> p[f]]

\* C17: learn_from_feedback writes only the preferences of the named user's
\* profile, making a default profile first for an unseen user.  The
\* interaction sequence, every interaction_count, satisfaction history and
\* last_interaction, and every off-track counter stay as they were, whatever
\* the feedback text says and whatever the score is.
C17_LearnWritesPreferencesOnly ==
    [][ret'.op = "learn_from_feedback" =>
          LET u == ret'.arg.user_id
          IN  /\ interactions' = interactions
              /\ off_track_patterns' = off_track_patterns
              /\ DOMAIN user_profiles' = DOMAIN user_profiles \cup {u}
              /\ \A v \in DOMAIN user_profiles :
                    /\ WithoutPreferences(user_profiles'[v]) =
                           WithoutPreferences(user_profiles[v])
                    /\ v # u => user_profiles'[v] = user_profiles[v]
              /\ u \notin DOMAIN user_profiles =>
                    /\ user_profiles'[u].user_id = u
                    /\ user_profiles'[u].interaction_count = 0
                    /\ user_profiles'[u].satisfaction_history = <<>>
                    /\ user_profiles'[u].last_interaction = None]_vars

\* Feedback with two trigger phrases and a score of 2 has been learned from
\* for a user who has one record, one score and one off-track count.
C17_Witness ==
    /\ ret.op = "learn_from_feedback"
    /\ ret.arg.feedback = FB_WRONG_USELESS
    /\ ret.arg.satisfaction_score = 2
    /\ ret.arg.user_id \in DOMAIN user_profiles
    /\ user_profiles[ret.arg.user_id].interaction_count = 1
    /\ user_profiles[ret.arg.user_id].satisfaction_history = <<2>>
    /\ DictGet(off_track_patterns, ret.arg.user_id, 0) = 1
    /\ Len(interactions) = 1

----------------------------------------------------------------------------
(* Further claims about the store (Spec) *)

\* s is a prefix of t.
IsPrefix(s, t) == Len(s) <= Len(t) /\ SubSeq(t, 1, Len(s)) = s

\* The profile p is the default one of user u: no interactions counted yet.
IsDefaultProfile(p, u) ==
    /\ p.user_id = u
    /\ p.interaction_count = 0
    /\ p.preferred_response_style = "balanced"
    /\ p.satisfaction_history = <<>>
    /\ p.preferences = <<>>

\* C11: get_user_profile is idempotent.  For an unseen user it adds exactly one
\* default profile with interaction_count 0; a second call changes nothing and
\* returns the same profile; for a known user it changes no stored state.
C11_GetUserProfileIdempotent ==
    /\ [](\A u \in Users :
            LET s1 == get_user_profile(Self, u)
            IN  /\ get_user_profile(s1, u) = s1
                /\ u \in DOMAIN user_profiles => s1 = Self
                /\ u \notin DOMAIN user_profiles =>
                      /\ DOMAIN s1.user_profiles = DOMAIN user_profiles \cup {u}
                      /\ IsDefaultProfile(s1.user_profiles[u], u))
    /\ [][ret'.op = "get_user_profile" =>
            LET u == ret'.arg
            IN  /\ ret'.out = user_profiles'[u]
                /\ u \in DOMAIN user_profiles =>
                      /\ user_profiles' = user_profiles
                      /\ ret'.out = user_profiles[u]
                /\ u \notin DOMAIN user_profiles =>
                      /\ Cardinality(DOMAIN user_profiles') =
                             Cardinality(DOMAIN user_profiles) + 1
                      /\ IsDefaultProfile(user_profiles'[u], u)
                      /\ \A v \in DOMAIN user_profiles :
                            user_profiles'[v] = user_profiles[v]
                /\ interactions' = interactions
                /\ off_track_patterns' = off_track_patterns]_vars

\* get_user_profile has returned the profile of a user with two interactions,
\* while the other user's profile is a default one.
C11_Witness ==
    /\ ret.op = "get_user_profile"
    /\ ret.out.interaction_count = 2
    /\ \E v \in DOMAIN user_profiles : user_profiles[v].interaction_count = 0

\* C13: get_reliability_metrics completes and returns the full report in every
\* state with at least one record, scored or not.
C13_MetricsNeverFail ==
    (ret.op = "get_reliability_metrics" /\ Len(interactions) > 0) =>
          /\ ret.out.kind = "metrics"
          /\ {"total_interactions", "unique_users", "average_satisfaction",
              "off_track_rate", "agent_performance"} \subseteq DOMAIN ret.out

\* C16: the state only grows.  The interaction sequence changes only by
\* appending at the end, interaction_count and the off-track counter of a user
\* never decrease, a satisfaction history changes only by appending, and no
\* profile is removed.
C16_AppendOnly ==
    [][/\ IsPrefix(interactions, interactions')
       /\ Len(interactions') <= Len(interactions) + 1
       /\ DOMAIN user_profiles \subseteq DOMAIN user_profiles'
       /\ \A u \in DOMAIN user_profiles :
             /\ user_profiles'[u].interaction_count >= user_profiles[u].interaction_count
             /\ IsPrefix(user_profiles[u].satisfaction_history,
                         user_profiles'[u].satisfaction_history)
       /\ \A u \in Users :
             DictGet(off_track_patterns', u, 0) >= DictGet(off_track_patterns, u, 0)]_vars

\* A second, different record has been appended after a scored off-track one.
C16_Witness ==
    /\ ret.op = "record_interaction"
    /\ Len(interactions) = 2
    /\ interactions[1] # interactions[2]
    /\ interactions[1].satisfaction_score = Some(2)
    /\ \E u \in DOMAIN off_track_patterns : off_track_patterns[u] = 1

\* Between this state and the next the stored state is the same, except that
\* user u, if unseen, has been given a default profile.
OnlyDefaultProfileAdded(u) ==
    /\ interactions' = interactions
    /\ off_track_patterns' = off_track_patterns
    /\ \A v \in DOMAIN user_profiles : user_profiles'[v] = user_profiles[v]
    /\ DOMAIN user_profiles' = DOMAIN user_profiles \cup {u}
    /\ u \notin DOMAIN user_profiles => IsDefaultProfile(user_profiles'[u], u)

\* C20: the queries do not write.  analyze_response_style_preference and
\* get_personalized_prompt_adjustments leave the interaction sequence, the
\* fields of existing profiles and the off-track counters as they were and at
\* most add a default profile for an unseen user; get_reliability_metrics
\* changes nothing at all.
C20_QueriesDoNotWrite ==
    [][/\ ret'.op = "analyze_response_style_preference" =>
             OnlyDefaultProfileAdded(ret'.arg)
       /\ ret'.op = "get_personalized_prompt_adjustments" =>
             OnlyDefaultProfileAdded(ret'.arg.user_id)
       /\ ret'.op = "get_reliability_metrics" =>
             /\ interactions' = interactions
             /\ user_profiles' = user_profiles
             /\ off_track_patterns' = off_track_patterns]_vars

\* The prompt has been asked for a user with no record and no off-track
\* counter, while the other user has two records and a counter.
C20_Witness ==
    /\ ret.op = "get_personalized_prompt_adjustments"
    /\ user_profiles[ret.arg.user_id].interaction_count = 0
    /\ ret.arg.user_id \notin DOMAIN off_track_patterns
    /\ \E v \in DOMAIN off_track_patterns : user_profiles[v].interaction_count = 2

----------------------------------------------------------------------------
(* Concurrent callers (SpecConcurrent): record_interaction takes no lock, so *)
(* two contexts calling the module-level tracker run its statements          *)
(* interleaved.  Each statement of lines 109-136 is a step; a += is a load   *)
(* and a store.                                                              *)

ConcurrentArgs ==
    {Args("alice", "claims_agent", TXT_HELLO, Some(2), None),
     Args("alice", "claims_agent", TXT_HELLO, None, None),
     Args("bob", "email_agent", TXT_WRONG, None, None)}

\* The state outside the tracker's three collections and the callers.
ThreadFrame ==
    UNCHANGED <<supabase_tables_checked, has_user_interactions_table,
                has_user_learning_table, supabase, now, storage_log, ret, reference>>

\* Context t moves to statement pc.
Goto(t, pc) == [threads EXCEPT ![t].pc = pc]

\* Context t returns from the call.
Return(t) == [threads EXCEPT ![t] = IdleThread]

\* Lines 109-120: the call is entered and the record is built.
ThreadBegin(t, a) ==
    /\ threads[t].pc = "idle"
    /\ Len(interactions) + Cardinality({x \in Threads : threads[x].pc = "append"})
          < MaxCallsConcurrent
    /\ threads' = [threads EXCEPT ![t] =
                      [pc |-> "append", interaction |-> UserInteraction(a, now),
                       profile_stored |-> FALSE, tmp |-> 0]]
    /\ UNCHANGED <<interactions, user_profiles, off_track_patterns>>
    /\ ThreadFrame

\* Line 122: self.interactions.append(interaction)
ThreadAppend(t) ==
    /\ threads[t].pc = "append"
    /\ interactions' = Append(interactions, threads[t].interaction)
    /\ threads' = Goto(t, "check")
    /\ UNCHANGED <<user_profiles, off_track_patterns>>
    /\ ThreadFrame

\* Line 125: if user_id not in self.user_profiles
ThreadCheck(t) ==
    /\ threads[t].pc = "check"
    /\ threads' = Goto(t, IF threads[t].interaction.user_id \in DOMAIN user_profiles
                          THEN "fetch" ELSE "create")
    /\ UNCHANGED <<interactions, user_profiles, off_track_patterns>>
    /\ ThreadFrame

\* Line 126: self.user_profiles[user_id] = UserProfile(user_id=user_id).  The
\* object the map held for that user, if any, is no longer the stored one: a
\* context that fetched it keeps writing to an object nobody reads.
ThreadCreate(t) ==
    /\ threads[t].pc = "create"
    /\ LET u == threads[t].interaction.user_id
       IN  /\ user_profiles' = DictSet(user_profiles, u, UserProfile(u))
           /\ threads' =
                 [x \in Threads |->
                     IF x = t THEN [threads[x] EXCEPT !.pc = "fetch"]
                     ELSE IF threads[x].pc # "idle" /\ threads[x].interaction.user_id = u
                     THEN [threads[x] EXCEPT !.profile_stored = FALSE]
                     ELSE threads[x]]
    /\ UNCHANGED <<interactions, off_track_patterns>>
    /\ ThreadFrame

\* Line 128: profile = self.user_profiles[user_id]
ThreadFetch(t) ==
    /\ threads[t].pc = "fetch"
    /\ threads' = [threads EXCEPT ![t].pc = "load_count", ![t].profile_stored = TRUE]
    /\ UNCHANGED <<interactions, user_profiles, off_track_patterns>>
    /\ ThreadFrame

\* Line 129, profile.interaction_count += 1: the attribute is loaded.
ThreadLoadCount(t) ==
    /\ threads[t].pc = "load_count"
    /\ LET u == threads[t].interaction.user_id
       IN  threads' = [threads EXCEPT
                          ![t].pc = "store_count",
                          ![t].tmp = IF threads[t].profile_stored
                                     THEN user_profiles[u].interaction_count ELSE 0]
    /\ UNCHANGED <<interactions, user_profiles, off_track_patterns>>
    /\ ThreadFrame

\* Line 129, profile.interaction_count += 1: the sum is stored.
ThreadStoreCount(t) ==
    /\ threads[t].pc = "store_count"
    /\ LET u == threads[t].interaction.user_id
       IN  user_profiles' =
              IF threads[t].profile_stored
              THEN [user_profiles EXCEPT ![u].interaction_count = threads[t].tmp + 1]
              ELSE user_profiles
    /\ threads' = Goto(t, "last")
    /\ UNCHANGED <<interactions, off_track_patterns>>
    /\ ThreadFrame

\* Line 130: profile.last_interaction = interaction.timestamp
ThreadLast(t) ==
    /\ threads[t].pc = "last"
    /\ LET u == threads[t].interaction.user_id
       IN  user_profiles' =
              IF threads[t].profile_stored
              THEN [user_profiles EXCEPT
                       ![u].last_interaction = Some(threads[t].interaction.timestamp)]
              ELSE user_profiles
    /\ threads' = Goto(t, "history")
    /\ UNCHANGED <<interactions, off_track_patterns>>
    /\ ThreadFrame

\* Lines 132-133: the score, if given, is appended to the history.
ThreadHistory(t) ==
    /\ threads[t].pc = "history"
    /\ LET u == threads[t].interaction.user_id
           score == threads[t].interaction.satisfaction_score
       IN  user_profiles' =
              IF threads[t].profile_stored /\ score # None
              THEN [user_profiles EXCEPT ![u].satisfaction_history = Append(@, score[1])]
              ELSE user_profiles
    /\ threads' = Goto(t, "detect")
    /\ UNCHANGED <<interactions, off_track_patterns>>
    /\ ThreadFrame

\* Lines 136, 166-179: the tests of _detect_off_track, up to the += it reaches
\* or the return False.
ThreadDetect(t) ==
    /\ threads[t].pc = "detect"
    /\ LET i == threads[t].interaction
       IN  threads' = Goto(t, IF detect_off_track(Self, i.user_id, i).out
                              THEN "load_off" ELSE "return")
    /\ UNCHANGED <<interactions, user_profiles, off_track_patterns>>
    /\ ThreadFrame

\* Lines 171 and 177, self.off_track_patterns[user_id] += 1: the entry is
\* loaded, the defaultdict inserting 0 for a missing key.
ThreadLoadOffTrack(t) ==
    /\ threads[t].pc = "load_off"
    /\ LET u == threads[t].interaction.user_id
           n == DictGet(off_track_patterns, u, 0)
       IN  /\ off_track_patterns' = DictSet(off_track_patterns, u, n)
           /\ threads' = [threads EXCEPT ![t].pc = "store_off", ![t].tmp = n]
    /\ UNCHANGED <<interactions, user_profiles>>
    /\ ThreadFrame

\* Lines 171 and 177, self.off_track_patterns[user_id] += 1: the sum is stored
\* and the call returns.
ThreadStoreOffTrack(t) ==
    /\ threads[t].pc = "store_off"
    /\ off_track_patterns' =
          DictSet(off_track_patterns, threads[t].interaction.user_id, threads[t].tmp + 1)
    /\ threads' = Return(t)
    /\ UNCHANGED <<interactions, user_profiles>>
    /\ ThreadFrame

\* Line 181 and the end of record_interaction with no storage client: the
\* detector found nothing and the call returns.
ThreadReturn(t) ==
    /\ threads[t].pc = "return"
    /\ threads' = Return(t)
    /\ UNCHANGED <<interactions, user_profiles, off_track_patterns>>
    /\ ThreadFrame

NextConcurrent ==
    \E t \in Threads :
        \/ \E a \in ConcurrentArgs : ThreadBegin(t, a)
        \/ ThreadAppend(t)
        \/ ThreadCheck(t)
        \/ ThreadCreate(t)
        \/ ThreadFetch(t)
        \/ ThreadLoadCount(t)
        \/ ThreadStoreCount(t)
        \/ ThreadLast(t)
        \/ ThreadHistory(t)
        \/ ThreadDetect(t)
        \/ ThreadLoadOffTrack(t)
        \/ ThreadStoreOffTrack(t)
        \/ ThreadReturn(t)

SpecConcurrent == Init /\ [][NextConcurrent]_vars

\* C12: no update is lost between concurrent callers.  Once every call of
\* record_interaction has completed, each user's interaction_count is the
\* number of that user's records and each user's off-track counter is the
\* number of that user's records that triggered the detector.
C12_NoLostUpdate ==
    (\A t \in Threads : threads[t].pc = "idle") =>
        \A u \in Users :
            /\ CountOf(u) = Cardinality(RecordsOf(u))
            /\ DictGet(off_track_patterns, u, 0) = TriggeringCount(u)

============================================================================
